---------------------------- MODULE Spec2Model ----------------------------
(***************************************************************************)
(* A model of the Stall entry registry (src/src/stall.rs): the bijective   *)
(* local <-> remote path map, its load status, and its two on-disk         *)
(* formats (the RON record and the newline-delimited list).                *)
(*                                                                         *)
(* Text is a sequence of one-character strings.  A path is the text a      *)
(* PathBuf holds; two paths are the same key of the map when their         *)
(* components agree, as PathBuf's Eq and Ord compare them.                 *)
(***************************************************************************)
EXTENDS Integers, Sequences, FiniteSets, TLC

VARIABLES
    entries,      \* Stall.entries: the set of stored <<local, remote>> pairs
    load_status,  \* Stall.load_status: [load_path, modified]
    fs,           \* the file system: file path -> None or Some(content)
    baseline,     \* history: the entries as of the last successful load or save
    clean,        \* history: the entries when modified was last made false
    last,         \* history: the last operation, its arguments and its result
    ops           \* the number of operations so far

vars == <<entries, load_status, fs, baseline, clean, last, ops>>

-----------------------------------------------------------------------------
(* Option values.                                                          *)

None == <<>>

Some(v) == <<v>>

IsSome(o) == o # <<>>

Unwrap(o) == o[1]

-----------------------------------------------------------------------------
(* Text helpers (str::trim, str::starts_with, BufRead::lines).             *)

IsWhite(c) == c \in {" ", "\t", "\n", "\r"}

RECURSIVE TrimStart(_)
TrimStart(t) ==
    IF t # <<>> /\ IsWhite(Head(t)) THEN TrimStart(Tail(t)) ELSE t

RECURSIVE TrimEnd(_)
TrimEnd(t) ==
    IF t # <<>> /\ IsWhite(t[Len(t)])
    THEN TrimEnd(SubSeq(t, 1, Len(t) - 1))
    ELSE t

\* A mutant of Trim: the line is taken as it was read.
Trim_none(t) == t

\* str::trim, stall.rs line 314
Trim(t) == TrimEnd(TrimStart(t))

StartsWith(t, prefix) ==
    /\ Len(t) >= Len(prefix)
    /\ SubSeq(t, 1, Len(prefix)) = prefix

\* The pieces of t between occurrences of the character c (str::split).
RECURSIVE SplitOn(_, _)
SplitOn(t, c) ==
    IF \A i \in 1..Len(t) : t[i] # c
    THEN <<t>>
    ELSE LET i == CHOOSE k \in 1..Len(t) :
                      t[k] = c /\ \A j \in 1..(k - 1) : t[j] # c
         IN  <<SubSeq(t, 1, i - 1)>> \o SplitOn(SubSeq(t, i + 1, Len(t)), c)

StripCR(t) ==
    IF t # <<>> /\ t[Len(t)] = "\r" THEN SubSeq(t, 1, Len(t) - 1) ELSE t

\* BufRead::lines, stall.rs line 309: the lines of the content, each without
\* its "\n" (and a "\r" before it); no line follows a final "\n".
Lines(content) ==
    LET Stripped(kept) == [i \in 1..Len(kept) |-> StripCR(kept[i])]
        Kept(parts) == Stripped(IF parts[Len(parts)] = <<>>
                                THEN SubSeq(parts, 1, Len(parts) - 1)
                                ELSE parts)
    IN  Kept(SplitOn(content, "\n"))

RECURSIVE Concat(_)
Concat(ts) == IF ts = <<>> THEN <<>> ELSE Head(ts) \o Concat(Tail(ts))

-----------------------------------------------------------------------------
(* Paths (std::path::Path on a Unix target).                               *)

RootDir == <<"/">>

CurDir == <<".">>

ParentDir == <<".", ".">>

RECURSIVE NormalSegments(_)
NormalSegments(segs) ==
    IF segs = <<>> THEN <<>>
    ELSE IF Head(segs) = <<>> \/ Head(segs) = CurDir
         THEN NormalSegments(Tail(segs))
         ELSE <<Head(segs)>> \o NormalSegments(Tail(segs))

\* Path::components: the root if the path starts with "/", a leading "."
\* if the path starts with it, then every segment that is neither empty nor ".".
Components(p) ==
    LET Of(segs) ==
            IF p = <<>> THEN <<>>
            ELSE IF Head(p) = "/"
                 THEN <<RootDir>> \o NormalSegments(segs)
                 ELSE IF Head(segs) = CurDir
                      THEN <<CurDir>> \o NormalSegments(Tail(segs))
                      ELSE NormalSegments(segs)
    IN  Of(SplitOn(p, "/"))

\* Path::file_name: the last component when it is a normal one.
file_name(p) ==
    LET LastOf(cs) ==
            IF cs = <<>> THEN None
            ELSE IF cs[Len(cs)] \in {RootDir, CurDir, ParentDir} THEN None
                 ELSE Some(cs[Len(cs)])
    IN  LastOf(Components(p))

\* PathBuf's Eq: the keys of the BiBTreeMap are compared by components.
PathEq(p, q) == Components(p) = Components(q)


\* The characters of the model's texts, in ASCII order.  BadByte stands for
\* a byte that is not valid UTF-8.
BadByte == "<FF>"

Alphabet ==
    << "\t", "\n", "\r", " ", "!", "\"", "#", "(", ")", ",", ".", "/", ":",
       "S", "[", "\\", "]", "_", "a", "b", "c", "d", "e", "i", "l", "m", "n",
       "o", "p", "r", "s", "t", "x", "{", "}", BadByte >>

CharCode(c) == CHOOSE i \in 1..Len(Alphabet) : Alphabet[i] = c

RECURSIVE TextLess(_, _)
TextLess(s, t) ==
    IF t = <<>> THEN FALSE
    ELSE IF s = <<>> THEN TRUE
    ELSE IF Head(s) = Head(t) THEN TextLess(Tail(s), Tail(t))
    ELSE CharCode(Head(s)) < CharCode(Head(t))

\* Component's Ord: RootDir < CurDir < ParentDir < Normal(_), normal
\* components by their bytes.
ComponentKind(c) ==
    IF c = RootDir THEN 1 ELSE IF c = CurDir THEN 2
    ELSE IF c = ParentDir THEN 3 ELSE 4

ComponentLess(c, d) ==
    IF ComponentKind(c) # ComponentKind(d)
    THEN ComponentKind(c) < ComponentKind(d)
    ELSE ComponentKind(c) = 4 /\ TextLess(c, d)

RECURSIVE ComponentsLess(_, _)
ComponentsLess(cs, ds) ==
    IF ds = <<>> THEN FALSE
    ELSE IF cs = <<>> THEN TRUE
    ELSE IF Head(cs) = Head(ds) THEN ComponentsLess(Tail(cs), Tail(ds))
    ELSE ComponentLess(Head(cs), Head(ds))

\* PathBuf's Ord, the order of the BiBTreeMap's iteration.
PathLess(p, q) == ComponentsLess(Components(p), Components(q))

-----------------------------------------------------------------------------
(* The bidirectional map (bimap::BiBTreeMap<PathBuf, PathBuf>) as the set  *)
(* of its <<left, right>> pairs.                                           *)

\* BiBTreeMap::get_by_left, stall.rs line 89
get_by_left(m, l) ==
    LET Right(hit) ==
            IF hit = {} THEN None ELSE Some((CHOOSE e \in hit : TRUE)[2])
    IN  Right({e \in m : PathEq(e[1], l)})

\* BiBTreeMap::get_by_right, stall.rs line 97
get_by_right(m, r) ==
    LET Left(hit) ==
            IF hit = {} THEN None ELSE Some((CHOOSE e \in hit : TRUE)[1])
    IN  Left({e \in m : PathEq(e[2], r)})

\* BiBTreeMap::remove_by_left, stall.rs line 136: the map left and the pair
\* removed, if any.
remove_by_left(m, l) ==
    LET Without(hit) ==
            [map     |-> m \ hit,
             removed |-> IF hit = {} THEN None
                         ELSE Some(CHOOSE e \in hit : TRUE)]
    IN  Without({e \in m : PathEq(e[1], l)})

\* BiBTreeMap::remove_by_right, stall.rs line 148
remove_by_right(m, r) ==
    LET Without(hit) ==
            [map     |-> m \ hit,
             removed |-> IF hit = {} THEN None
                         ELSE Some(CHOOSE e \in hit : TRUE)]
    IN  Without({e \in m : PathEq(e[2], r)})

\* A mutant of bimap_insert: a map keyed by the left path alone, which
\* leaves a pair that holds the right path in place.
bimap_insert_left_only(m, l, r) ==
    LET Stored(byl) ==
            [map       |-> byl.map \cup {<<l, r>>},
             overwrite |-> IF IsSome(byl.removed)
                           THEN <<"Left", Unwrap(byl.removed)>>
                           ELSE <<"Neither">>]
    IN  Stored(remove_by_left(m, l))

\* A mutant of bimap_insert: any collision empties the map before the new
\* pair is stored.
bimap_insert_clear(m, l, r) ==
    IF IsSome(remove_by_left(m, l).removed)
           \/ IsSome(remove_by_right(m, r).removed)
    THEN [map |-> {<<l, r>>}, overwrite |-> <<"Neither">>]
    ELSE [map |-> m \cup {<<l, r>>}, overwrite |-> <<"Neither">>]

\* BiBTreeMap::insert, stall.rs lines 125 and 163: the pair with the given
\* left and the pair with the given right are removed, then the new pair is
\* stored; the value returned says what was overwritten.
bimap_insert(m, l, r) ==
    LET Stored(byl, byr) ==
            [map       |-> byr.map \cup {<<l, r>>},
             overwrite |->
                 IF ~IsSome(byl.removed) /\ ~IsSome(byr.removed)
                   THEN <<"Neither">>
                 ELSE IF ~IsSome(byl.removed)
                   THEN <<"Right", Unwrap(byr.removed)>>
                 ELSE IF ~IsSome(byr.removed)
                   THEN IF PathEq(Unwrap(byl.removed)[2], r)
                        THEN <<"Pair", Unwrap(byl.removed)>>
                        ELSE <<"Left", Unwrap(byl.removed)>>
                 ELSE <<"Both", Unwrap(byl.removed), Unwrap(byr.removed)>>]
        ByRight(byl) == Stored(byl, remove_by_right(byl.map, r))
    IN  ByRight(remove_by_left(m, l))

\* BiBTreeMap::iter, stall.rs line 104: the pairs in the order of their left
\* paths.
RECURSIVE SortedPairs(_)
SortedPairs(m) ==
    IF m = {} THEN <<>>
    ELSE LET From(first) == <<first>> \o SortedPairs(m \ {first})
         IN  From(CHOOSE e \in m : \A o \in m \ {e} : ~PathLess(o[1], e[1]))

-----------------------------------------------------------------------------
(* The structured format (RON), written by ron::ser::to_string_pretty and  *)
(* read by ron::de::Deserializer.                                          *)

K_header == <<"#", "!", "[", "e", "n", "a", "b", "l", "e", "(", "i", "m", "p", "l", "i", "c", "i", "t", "_", "s", "o", "m", "e", ")", "]">>

K_entries == <<"e", "n", "t", "r", "i", "e", "s">>

K_Stall == <<"S", "t", "a", "l", "l">>

Indent == <<" ", " ", " ", " ">>

\* A mutant of EscapeChar: every character is written as it is.
EscapeChar_none(c) == <<c>>

\* One character of a RON string literal, escaped as the serializer does.
EscapeChar(c) ==
    CASE c = "\"" -> <<"\\", "\"">>
      [] c = "\\" -> <<"\\", "\\">>
      [] c = "\n" -> <<"\\", "n">>
      [] c = "\t" -> <<"\\", "t">>
      [] c = "\r" -> <<"\\", "r">>
      [] OTHER    -> <<c>>

\* A path written as a RON string literal.
Quoted(p) == <<"\"">> \o Concat([i \in 1..Len(p) |-> EscapeChar(p[i])]) \o <<"\"">>

RonEntryLine(e) ==
    Indent \o Indent \o Quoted(e[1]) \o <<":", " ">> \o Quoted(e[2])
        \o <<",", "\n">>

\* The entries field's value: a map, one pair per line at the second level
\* of nesting.
RonMap(m) ==
    IF m = {} THEN <<"{", "}">>
    ELSE LET Written(ps) ==
                 <<"{", "\n">>
                     \o Concat([i \in 1..Len(ps) |-> RonEntryLine(ps[i])])
                     \o Indent \o <<"}">>
         IN  Written(SortedPairs(m))

\* ron::ser::to_string_pretty(&self, pretty), stall.rs lines 349-355: the
\* extension header, then the record with its one serialized field (the
\* load status is skipped).
generate_ron(m) ==
    K_header \o <<"\n", "(", "\n">>
        \o Indent \o K_entries \o <<":", " ">> \o RonMap(m) \o <<",", "\n", ")">>

Fail == [ok |-> FALSE, pos |-> 0, val |-> <<>>]

Ok(v, i) == [ok |-> TRUE, pos |-> i, val |-> v]

At(t, i) == IF i >= 1 /\ i <= Len(t) THEN t[i] ELSE "EOF"

\* The position after the line that holds position i.
RECURSIVE SkipLine(_, _)
SkipLine(t, i) ==
    IF i > Len(t) THEN i
    ELSE IF t[i] = "\n" THEN i + 1 ELSE SkipLine(t, i + 1)

\* RON whitespace: blanks and // comments (the alphabet has no "*", so no
\* block comment can be written).
RECURSIVE SkipWs(_, _)
SkipWs(t, i) ==
    IF IsWhite(At(t, i)) THEN SkipWs(t, i + 1)
    ELSE IF At(t, i) = "/" /\ At(t, i + 1) = "/"
         THEN SkipWs(t, SkipLine(t, i + 2))
         ELSE i

IsIdentChar(c) ==
    c \in {"S", "_", "a", "b", "c", "d", "e", "i", "l", "m", "n", "o", "p",
           "r", "s", "t", "x"}

RECURSIVE IdentEnd(_, _)
IdentEnd(t, i) == IF IsIdentChar(At(t, i)) THEN IdentEnd(t, i + 1) ELSE i

\* An identifier starting at i (possibly empty).
ParseIdent(t, i) ==
    LET UpTo(j) == Ok(SubSeq(t, i, j - 1), j)
    IN  UpTo(IdentEnd(t, i))

\* The rest of a string literal, from position i to its closing quote.
RECURSIVE StringBody(_, _, _)
StringBody(t, i, acc) ==
    LET c == At(t, i)
        d == At(t, i + 1)
    IN  IF c = "EOF" THEN Fail
        ELSE IF c = "\"" THEN Ok(acc, i + 1)
        ELSE IF c = "\\"
             THEN IF d \in {"\"", "\\"} THEN StringBody(t, i + 2, acc \o <<d>>)
                  ELSE IF d = "n" THEN StringBody(t, i + 2, acc \o <<"\n">>)
                  ELSE IF d = "t" THEN StringBody(t, i + 2, acc \o <<"\t">>)
                  ELSE IF d = "r" THEN StringBody(t, i + 2, acc \o <<"\r">>)
                  ELSE Fail
        ELSE StringBody(t, i + 1, acc \o <<c>>)

ParseString(t, i) ==
    IF At(t, i) = "\"" THEN StringBody(t, i + 1, <<>>) ELSE Fail

\* The pairs of a map after its "{": key ":" value, separated by commas,
\* the last comma optional.
RECURSIVE ParsePairs(_, _, _)
ParsePairs(t, i, acc) ==
    LET \* k: the key; i1: the colon; v: the value; i2: what follows it
        Pair(k, i1, v, i2) ==
            IF ~k.ok \/ At(t, i1) # ":" THEN Fail
            ELSE IF ~v.ok THEN Fail
            ELSE IF At(t, i2) = ","
                 THEN ParsePairs(t, SkipWs(t, i2 + 1),
                                 acc \o <<(<<k.val, v.val>>)>>)
                 ELSE IF At(t, i2) = "}"
                      THEN Ok(acc \o <<(<<k.val, v.val>>)>>, i2 + 1)
                      ELSE Fail
        AfterValue(k, i1, v) == Pair(k, i1, v, SkipWs(t, v.pos))
        AfterColon(k, i1) ==
            AfterValue(k, i1, ParseString(t, SkipWs(t, i1 + 1)))
        AfterKey(k) == AfterColon(k, SkipWs(t, k.pos))
    IN  IF At(t, i) = "}" THEN Ok(acc, i + 1)
        ELSE AfterKey(ParseString(t, i))

ParseMap(t, i) ==
    IF At(t, i) = "{" THEN ParsePairs(t, SkipWs(t, i + 1), <<>>) ELSE Fail

\* The fields of the record after its "(".  serde(deny_unknown_fields),
\* stall.rs line 46: a field other than entries is an error, and so is a
\* second entries field.  val is None until entries has been read.
RECURSIVE ParseFields(_, _, _)
ParseFields(t, i, seen) ==
    LET \* id: the field's name; i1: the colon; m: the map; i2: what follows
        Field(id, i1, m, i2) ==
            IF id.val # K_entries \/ IsSome(seen) THEN Fail
            ELSE IF At(t, i1) # ":" THEN Fail
            ELSE IF ~m.ok THEN Fail
            ELSE IF At(t, i2) = ","
                 THEN ParseFields(t, SkipWs(t, i2 + 1), Some(m.val))
                 ELSE IF At(t, i2) = ")" THEN Ok(Some(m.val), i2 + 1)
                      ELSE Fail
        AfterMap(id, i1, m) == Field(id, i1, m, SkipWs(t, m.pos))
        AfterColon(id, i1) == AfterMap(id, i1, ParseMap(t, SkipWs(t, i1 + 1)))
        AfterName(id) == AfterColon(id, SkipWs(t, id.pos))
    IN  IF At(t, i) = ")" THEN Ok(seen, i + 1)
        ELSE AfterName(ParseIdent(t, i))

\* Deserializer::from_bytes: the extension headers before the value.
RECURSIVE SkipExtensions(_, _)
SkipExtensions(t, i) ==
    IF At(t, i) # "#" THEN Ok(<<>>, i)
    ELSE IF i + Len(K_header) - 1 <= Len(t)
            /\ SubSeq(t, i, i + Len(K_header) - 1) = K_header
         THEN SkipExtensions(t, SkipWs(t, i + Len(K_header)))
         ELSE Fail

\* The map the deserialized pairs build: BiBTreeMap's Deserialize inserts
\* them one by one.
RECURSIVE CollectPairs(_, _)
CollectPairs(ps, m) ==
    IF ps = <<>> THEN m
    ELSE CollectPairs(Tail(ps), bimap_insert(m, Head(ps)[1], Head(ps)[2]).map)

\* Stall::parse_ron_from_bytes.  The record may carry its name; it must
\* hold the entries field; only whitespace may follow it (d.end()).
parse_ron_from_bytes(bytes) ==
    LET \* ext: the headers; name: the record's name; i1: its "(";
        \* fs1: its fields
        Record(ext, name, i1, fs1) ==
            IF \E i \in 1..Len(bytes) : bytes[i] = BadByte THEN Fail
            ELSE IF ~ext.ok THEN Fail
            ELSE IF name.val # <<>> /\ name.val # K_Stall THEN Fail
            ELSE IF At(bytes, i1) # "(" THEN Fail
            ELSE IF ~fs1.ok \/ ~IsSome(fs1.val) THEN Fail
            ELSE IF SkipWs(bytes, fs1.pos) # Len(bytes) + 1 THEN Fail
            ELSE Ok(CollectPairs(Unwrap(fs1.val), {}), Len(bytes) + 1)
        AfterParen(ext, name, i1) ==
            Record(ext, name, i1, ParseFields(bytes, SkipWs(bytes, i1 + 1), None))
        AfterName(ext, name) == AfterParen(ext, name, SkipWs(bytes, name.pos))
        AfterHeaders(ext) == AfterName(ext, ParseIdent(bytes, ext.pos))
    IN  AfterHeaders(SkipExtensions(bytes, SkipWs(bytes, 1)))

-----------------------------------------------------------------------------
(* LoadStatus (crate::application::LoadStatus).                            *)

\* LoadStatus::default
LoadStatus_default == [load_path |-> None, modified |-> FALSE]

\* LoadStatus::set_load_path / with_load_path
LoadStatus_set_load_path(ls, path) == [ls EXCEPT !.load_path = Some(path)]

\* LoadStatus::set_modified
LoadStatus_set_modified(ls, m) == [ls EXCEPT !.modified = m]

-----------------------------------------------------------------------------
(* The Stall, as the record of its two fields, and its methods.  A method  *)
(* that can panic or return an error gives a status with its result.       *)

\* Stall::new
new(path) ==
    [load_status |-> LoadStatus_set_load_path(LoadStatus_default, path),
     entries     |-> {}]

\* Stall::new_detached
new_detached == [load_status |-> LoadStatus_default, entries |-> {}]

\* Stall::entry_local: the entry's pair, with the local path as asked for.
entry_local(self, local) ==
    LET Entry(remote) ==
            IF IsSome(remote) THEN Some(<<local, Unwrap(remote)>>) ELSE None
    IN  Entry(get_by_left(self.entries, local))

\* A mutant of entry_remote: the two fields of the entry exchanged.
entry_remote_swapped(self, remote) ==
    LET Entry(local) ==
            IF IsSome(local) THEN Some(<<remote, Unwrap(local)>>) ELSE None
    IN  Entry(get_by_right(self.entries, remote))

\* Stall::entry_remote
entry_remote(self, remote) ==
    LET Entry(local) ==
            IF IsSome(local) THEN Some(<<Unwrap(local), remote>>) ELSE None
    IN  Entry(get_by_right(self.entries, remote))

\* A mutant of insert: the pair is stored only when neither path is
\* already present (BiBTreeMap::insert_no_overwrite).
insert_no_overwrite(self, local, remote) ==
    IF ~IsSome(file_name(local)) \/ ~IsSome(file_name(remote))
    THEN [status |-> "panic", stall |-> self, out |-> <<>>]
    ELSE [status |-> "ok",
          stall  |-> [load_status |->
                          LoadStatus_set_modified(self.load_status, TRUE),
                      entries     |->
                          IF \/ IsSome(get_by_left(self.entries, local))
                             \/ IsSome(get_by_right(self.entries, remote))
                          THEN self.entries
                          ELSE self.entries \cup {<<local, remote>>}],
          out    |-> <<"Neither">>]

\* A mutant of insert: the flag is set before the two assertions.
insert_flag_first(self, local, remote) ==
    LET Inserted(ins) ==
            [status |-> "ok",
             stall  |-> [load_status |->
                             LoadStatus_set_modified(self.load_status, TRUE),
                         entries     |-> ins.map],
             out    |-> ins.overwrite]
    IN  IF ~IsSome(file_name(local)) \/ ~IsSome(file_name(remote))
        THEN [status |-> "panic",
              stall  |-> [self EXCEPT !.load_status =
                              LoadStatus_set_modified(self.load_status, TRUE)],
              out    |-> <<>>]
        ELSE Inserted(bimap_insert(self.entries, local, remote))

\* Stall::insert: the two assertions, then the flag, then the map.
insert(self, local, remote) ==
    LET Inserted(ins) ==
            [status |-> "ok",
             stall  |-> [load_status |->
                             LoadStatus_set_modified(self.load_status, TRUE),
                         entries     |-> ins.map],
             out    |-> ins.overwrite]
    IN  IF ~IsSome(file_name(local)) \/ ~IsSome(file_name(remote))
        THEN [status |-> "panic", stall |-> self, out |-> <<>>]
        ELSE Inserted(bimap_insert(self.entries, local, remote))

\* A mutant of remove_local: the flag is set only when a pair was removed.
remove_local_if_present(self, local) ==
    LET Removed(rem) ==
            [status |-> "ok",
             stall  |-> [load_status |->
                             IF IsSome(rem.removed)
                             THEN LoadStatus_set_modified(self.load_status, TRUE)
                             ELSE self.load_status,
                         entries     |-> rem.map],
             out    |-> rem.removed]
    IN  Removed(remove_by_left(self.entries, local))

\* A mutant of remove_local: the removed pair is not returned.
remove_local_silent(self, local) ==
    LET Removed(rem) ==
            [status |-> "ok",
             stall  |-> [load_status |->
                             LoadStatus_set_modified(self.load_status, TRUE),
                         entries     |-> rem.map],
             out    |-> None]
    IN  Removed(remove_by_left(self.entries, local))

\* Stall::remove_local
remove_local(self, local) ==
    LET Removed(rem) ==
            [status |-> "ok",
             stall  |-> [load_status |->
                             LoadStatus_set_modified(self.load_status, TRUE),
                         entries     |-> rem.map],
             out    |-> rem.removed]
    IN  Removed(remove_by_left(self.entries, local))

\* A mutant of remove_remote: the flag is left as it was.
remove_remote_no_flag(self, remote) ==
    LET Removed(rem) ==
            [status |-> "ok",
             stall  |-> [load_status |-> self.load_status, entries |-> rem.map],
             out    |-> rem.removed]
    IN  Removed(remove_by_right(self.entries, remote))

\* Stall::remove_remote
remove_remote(self, remote) ==
    LET Removed(rem) ==
            [status |-> "ok",
             stall  |-> [load_status |->
                             LoadStatus_set_modified(self.load_status, TRUE),
                         entries     |-> rem.map],
             out    |-> rem.removed]
    IN  Removed(remove_by_right(self.entries, remote))

\* A mutant of insert_list_remote: the pair is stored as insert stores it,
\* which sets the modified flag.
insert_list_remote_modifying(self, remote) ==
    LET Inserted(local) ==
            IF ~IsSome(local)
            THEN [status |-> "panic", stall |-> self]
            ELSE [status |-> "ok",
                  stall  |-> insert(self, Unwrap(local), remote).stall]
    IN  Inserted(file_name(remote))

\* Stall::insert_list_remote: the local path is the remote path's file
\* name (expect panics without one); the load status is left alone.
insert_list_remote(self, remote) ==
    LET Inserted(local) ==
            IF ~IsSome(local)
            THEN [status |-> "panic", stall |-> self]
            ELSE [status |-> "ok",
                  stall  |-> [self EXCEPT !.entries =
                                  bimap_insert(self.entries,
                                               Unwrap(local), remote).map]]
    IN  Inserted(file_name(remote))

\* A mutant of set_load_path: the load path is left as it was.
set_load_path_ignored(self, path) == self

\* Stall::set_load_path / with_load_path
set_load_path(self, path) ==
    [self EXCEPT !.load_status = LoadStatus_set_load_path(self.load_status, path)]

\* Stall::set_modified
set_modified(self, m) ==
    [self EXCEPT !.load_status = LoadStatus_set_modified(self.load_status, m)]

-----------------------------------------------------------------------------
(* Parsing.  A result is [status, err, branch, stall]: status is "ok",     *)
(* "err" or "panic"; branch is the parser that gave the result.            *)

HasBadByte(t) == \E i \in 1..Len(t) : t[i] = BadByte

\* The loop of Stall::parse_list_from_file over the lines left.
RECURSIVE parse_list_lines(_, _)
parse_list_lines(lines, stall) ==
    LET Inserted(ins) ==
            IF ins.status = "panic"
            THEN [status |-> "panic", err |-> "invalid stall file_name",
                  branch |-> "list", stall |-> stall]
            ELSE parse_list_lines(Tail(lines), ins.stall)
        Line(line) ==
            IF HasBadByte(Head(lines))
            THEN [status |-> "err", err |-> "list: Failed to read stall file",
                  branch |-> "list", stall |-> stall]
            ELSE IF line = <<>> THEN parse_list_lines(Tail(lines), stall)
            ELSE IF StartsWith(line, <<"/", "/">>)
                 THEN parse_list_lines(Tail(lines), stall)
            ELSE IF StartsWith(line, <<"#">>)
                 THEN parse_list_lines(Tail(lines), stall)
            ELSE Inserted(insert_list_remote(stall, line))
    IN  IF lines = <<>>
        THEN [status |-> "ok", err |-> "", branch |-> "list", stall |-> stall]
        ELSE Line(Trim(Head(lines)))

\* Stall::parse_list_from_file
parse_list_from_file(content) == parse_list_lines(Lines(content), new_detached)

\* Stall::parse_ron_from_file: the whole content, parsed as RON.  The load
\* status is not part of the record (serde(skip)): it is the default one.
parse_ron_from_file(content) ==
    LET Parsed(d) ==
            IF d.ok
            THEN [status |-> "ok", err |-> "", branch |-> "ron",
                  stall  |-> [load_status |-> LoadStatus_default,
                              entries     |-> d.val]]
            ELSE [status |-> "err", err |-> "ron: Failed parsing RON file",
                  branch |-> "ron", stall |-> new_detached]
    IN  Parsed(parse_ron_from_bytes(content))

\* A mutant of read_from_file: the error of the RON parse is returned.
read_from_file_ron_error(content, seek_fails) == parse_ron_from_file(content)

\* A mutant of read_from_file: the file is not rewound, so that the list
\* parse reads what the structured parse left of it, which is nothing.
read_from_file_no_rewind(content, seek_fails) ==
    LET OrList(ron) ==
            IF ron.status = "ok" THEN ron ELSE parse_list_from_file(<<>>)
    IN  OrList(parse_ron_from_file(content))

\* Stall::read_from_file.  seek_fails: whether the rewind before the list
\* parse fails.
read_from_file(content, seek_fails) ==
    LET OrList(ron) ==
            IF ron.status = "ok" THEN ron
            ELSE IF seek_fails
                 THEN [status |-> "err", err |-> "seek", branch |-> "seek",
                       stall |-> new_detached]
                 ELSE parse_list_from_file(content)
    IN  OrList(parse_ron_from_file(content))

\* A mutant of read_from_path: the load path is not set on the result.
read_from_path_detached(file, path, seek_fails) ==
    IF ~IsSome(file)
    THEN [status |-> "err", err |-> "Failed to open stall file for reading",
          branch |-> "open", stall |-> new_detached]
    ELSE read_from_file(Unwrap(file), seek_fails)

\* Stall::read_from_path.  file: the file at the path, None when absent.
read_from_path(file, path, seek_fails) ==
    LET WithPath(r) ==
            IF r.status = "ok"
            THEN [r EXCEPT !.stall = set_load_path(r.stall, path)]
            ELSE r
    IN  IF ~IsSome(file)
        THEN [status |-> "err", err |-> "Failed to open stall file for reading",
              branch |-> "open", stall |-> new_detached]
        ELSE WithPath(read_from_file(Unwrap(file), seek_fails))

-----------------------------------------------------------------------------
(* Saving.  fault is what goes wrong in the file system: "none"; "open"    *)
(* (the file cannot be opened or created); "partial" (the write or the     *)
(* flush fails after the first half of the text has reached the file).     *)

Faults == {"none", "open", "partial"}

\* Serialize for PathBuf: a path that is not valid UTF-8 is an error.
CanSerialize(m) == \A e \in m : ~HasBadByte(e[1]) /\ ~HasBadByte(e[2])

\* Stall::write_to_file / generate_ron_into_file, on a file just opened
\* for writing: what the file holds afterwards.
write_to_file(self, fault) ==
    LET Written(s) ==
            IF fault = "partial"
            THEN [status |-> "err", err |-> "Failed to flush file buffer",
                  content |-> SubSeq(s, 1, Len(s) \div 2)]
            ELSE [status |-> "ok", err |-> "", content |-> s]
    IN  IF ~CanSerialize(self.entries)
        THEN [status |-> "err", err |-> "Failed to serialize RON file",
              content |-> <<>>]
        ELSE Written(generate_ron(self.entries))

\* A mutant of write_to_path: a file that exists is left as it is.
write_to_path_keeping(self, file, fault) ==
    LET Result(w) ==
            [status |-> w.status, err |-> w.err,
             file   |-> IF IsSome(file) THEN file ELSE Some(w.content)]
    IN  IF fault = "open"
        THEN [status |-> "err", err |-> "Failed to open stall file for writing",
              file |-> file]
        ELSE Result(write_to_file(self, fault))

\* Stall::write_to_path.  file: the file at the path before the call; the
\* result holds the file after it.  Opening truncates or creates the file.
write_to_path(self, file, fault) ==
    LET Result(w) ==
            [status |-> w.status, err |-> w.err, file |-> Some(w.content)]
    IN  IF fault = "open"
        THEN [status |-> "err", err |-> "Failed to open stall file for writing",
              file |-> file]
        ELSE Result(write_to_file(self, fault))

\* A mutant of write_to_path_if_new: the file is opened as write_to_path
\* opens it, truncated if it exists.
write_to_path_if_new_truncating(self, file, fault) ==
    write_to_path(self, file, fault)

\* Stall::write_to_path_if_new: create_new fails when the file exists.
write_to_path_if_new(self, file, fault) ==
    LET Result(w) ==
            [status |-> w.status, err |-> w.err, file |-> Some(w.content)]
    IN  IF IsSome(file)
        THEN [status |-> "err", err |-> "Failed to create stall file: exists",
              file |-> file]
        ELSE IF fault = "open"
        THEN [status |-> "err", err |-> "Failed to create stall file",
              file |-> file]
        ELSE Result(write_to_file(self, fault))

\* A mutant of write_to_load_path: a detached Stall reports a write.
write_to_load_path_reporting(self, files, fault) ==
    LET path == Unwrap(self.load_status.load_path)
        Result(w) ==
            [status |-> w.status, err |-> w.err, written |-> w.status = "ok",
             files |-> [files EXCEPT ![path] = w.file]]
    IN  IF IsSome(self.load_status.load_path)
        THEN Result(write_to_path(self, files[path], fault))
        ELSE [status |-> "ok", err |-> "", written |-> TRUE, files |-> files]

\* Stall::write_to_load_path.  files: the file system before the call; the
\* result holds the file system after it and whether data was written.
write_to_load_path(self, files, fault) ==
    LET path == Unwrap(self.load_status.load_path)
        Result(w) ==
            [status |-> w.status, err |-> w.err, written |-> w.status = "ok",
             files |-> [files EXCEPT ![path] = w.file]]
    IN  IF IsSome(self.load_status.load_path)
        THEN Result(write_to_path(self, files[path], fault))
        ELSE [status |-> "ok", err |-> "", written |-> FALSE, files |-> files]

\* Stall::write_to_load_path_if_new
write_to_load_path_if_new(self, files, fault) ==
    LET path == Unwrap(self.load_status.load_path)
        Result(w) ==
            [status |-> w.status, err |-> w.err, written |-> w.status = "ok",
             files |-> [files EXCEPT ![path] = w.file]]
    IN  IF IsSome(self.load_status.load_path)
        THEN Result(write_to_path_if_new(self, files[path], fault))
        ELSE [status |-> "ok", err |-> "", written |-> FALSE, files |-> files]

-----------------------------------------------------------------------------
(* The inputs of the model.                                                *)

P_a == <<"a">>

P_a_slash == <<"a", "/">>

P_b == <<"b">>

P_bad == <<BadByte>>

P_up == <<".", ".">>

P_da == <<"d", "/", "a">>

P_qb == <<"\"", "b">>

P_root == <<"/">>

\* Local paths given to insert: two with a file name, one ending in a
\* parent reference, one that is not valid UTF-8.
LocalArgs == {P_a, P_b, P_up, P_bad}

\* Remote paths given to insert: two with a file name (one holding a
\* quote), and the root.
RemoteArgs == {P_da, P_qb, P_root}

\* The number of operations of a run.
MaxOps == 4

\* The stall files.
FilePaths == {"f", "g"}

\* A list file: a path, a comment, a blank line, a path.
X_list == <<"d", "/", "a", "\n", "#", " ", "c", "\n", "\n", "b", "\n">>

\* A hand-written record whose local path has no file name.
X_ron == <<"(", "e", "n", "t", "r", "i", "e", "s", ":", "{", "\"", "/", "\"", ":", "\"", "d", "/", "a", "/", "\"", "}", ")">>

\* Contents the stall file "f" may hold before the program starts.
ExternalContents == {X_list, X_ron}

-----------------------------------------------------------------------------
(* The state machine: one Stall, the files, and the calls made on them.    *)

Self == [load_status |-> load_status, entries |-> entries]

\* A panic ends the program; a run makes at most MaxOps calls.
Alive == last.status # "panic" /\ ops < MaxOps

Step == ops' = ops + 1

Init ==
    \E path \in FilePaths :
        /\ entries = new(path).entries
        /\ load_status = new(path).load_status
        /\ \E f \in {None} \cup {Some(c) : c \in ExternalContents} :
               fs = [p \in FilePaths |-> IF p = "f" THEN f ELSE None]
        /\ baseline = {}
        /\ clean = {}
        /\ last = [op |-> "new", arg |-> <<path>>, status |-> "ok", out |-> <<>>]
        /\ ops = 0

Insert(local, remote) ==
    /\ Alive
    /\ Step
    /\ \E r \in {insert(Self, local, remote)} :
           /\ entries' = r.stall.entries
           /\ load_status' = r.stall.load_status
           /\ last' = [op |-> "insert", arg |-> <<local, remote>>,
                       status |-> r.status, out |-> r.out]
    /\ UNCHANGED <<fs, baseline, clean>>

RemoveLocal(local) ==
    /\ Alive
    /\ Step
    /\ \E r \in {remove_local(Self, local)} :
           /\ entries' = r.stall.entries
           /\ load_status' = r.stall.load_status
           /\ last' = [op |-> "remove_local", arg |-> <<local>>,
                       status |-> r.status, out |-> r.out]
    /\ UNCHANGED <<fs, baseline, clean>>

RemoveRemote(remote) ==
    /\ Alive
    /\ Step
    /\ \E r \in {remove_remote(Self, remote)} :
           /\ entries' = r.stall.entries
           /\ load_status' = r.stall.load_status
           /\ last' = [op |-> "remove_remote", arg |-> <<remote>>,
                       status |-> r.status, out |-> r.out]
    /\ UNCHANGED <<fs, baseline, clean>>

SetModified(m) ==
    /\ Alive
    /\ Step
    /\ load_status' = set_modified(Self, m).load_status
    /\ clean' = IF m THEN clean ELSE entries
    /\ last' = [op |-> "set_modified", arg |-> <<m>>, status |-> "ok",
                out |-> <<>>]
    /\ UNCHANGED <<entries, fs, baseline>>

SetLoadPath(path) ==
    /\ Alive
    /\ Step
    /\ load_status' = set_load_path(Self, path).load_status
    /\ last' = [op |-> "set_load_path", arg |-> <<path>>, status |-> "ok",
                out |-> <<>>]
    /\ UNCHANGED <<entries, fs, baseline, clean>>

\* A mutant of WriteToPath: a successful save clears the modified flag.
WriteToPath_clearing(path, fault) ==
    /\ Alive
    /\ Step
    /\ \E w \in {write_to_path(Self, fs[path], fault)} :
           /\ fs' = [fs EXCEPT ![path] = w.file]
           /\ baseline' = IF w.status = "ok" THEN entries ELSE baseline
           /\ load_status' =
                  IF w.status = "ok"
                  THEN LoadStatus_set_modified(load_status, FALSE)
                  ELSE load_status
           /\ last' = [op |-> "write_to_path", arg |-> <<path>>,
                       status |-> w.status, out |-> <<w.err>>]
    /\ UNCHANGED <<entries, clean>>

WriteToPath(path, fault) ==
    /\ Alive
    /\ Step
    /\ \E w \in {write_to_path(Self, fs[path], fault)} :
           /\ fs' = [fs EXCEPT ![path] = w.file]
           /\ baseline' = IF w.status = "ok" THEN entries ELSE baseline
           /\ last' = [op |-> "write_to_path", arg |-> <<path>>,
                       status |-> w.status, out |-> <<w.err>>]
    /\ UNCHANGED <<entries, load_status, clean>>

WriteToPathIfNew(path, fault) ==
    /\ Alive
    /\ Step
    /\ \E w \in {write_to_path_if_new(Self, fs[path], fault)} :
           /\ fs' = [fs EXCEPT ![path] = w.file]
           /\ baseline' = IF w.status = "ok" THEN entries ELSE baseline
           /\ last' = [op |-> "write_to_path_if_new", arg |-> <<path>>,
                       status |-> w.status, out |-> <<w.err>>]
    /\ UNCHANGED <<entries, load_status, clean>>

WriteToLoadPath(fault) ==
    /\ Alive
    /\ Step
    /\ \E w \in {write_to_load_path(Self, fs, fault)} :
           /\ fs' = w.files
           /\ baseline' = IF w.written THEN entries ELSE baseline
           /\ last' = [op |-> "write_to_load_path", arg |-> <<>>,
                       status |-> w.status, out |-> <<w.err, w.written>>]
    /\ UNCHANGED <<entries, load_status, clean>>

WriteToLoadPathIfNew(fault) ==
    /\ Alive
    /\ Step
    /\ \E w \in {write_to_load_path_if_new(Self, fs, fault)} :
           /\ fs' = w.files
           /\ baseline' = IF w.written THEN entries ELSE baseline
           /\ last' = [op |-> "write_to_load_path_if_new", arg |-> <<>>,
                       status |-> w.status, out |-> <<w.err, w.written>>]
    /\ UNCHANGED <<entries, load_status, clean>>

\* A result of a load takes the place of the Stall; an error leaves the
\* caller with the Stall it had.
Loaded(op, arg, r) ==
    /\ entries' = IF r.status = "ok" THEN r.stall.entries ELSE entries
    /\ load_status' =
           IF r.status = "ok" THEN r.stall.load_status ELSE load_status
    /\ baseline' = IF r.status = "ok" THEN r.stall.entries ELSE baseline
    /\ clean' = IF r.status = "ok" THEN r.stall.entries ELSE clean
    /\ last' = [op |-> op, arg |-> arg, status |-> r.status,
                out |-> <<r.branch, r.err>>]
    /\ UNCHANGED fs

ReadFromPath(path, seek_fails) ==
    /\ Alive
    /\ Step
    /\ Loaded("read_from_path", <<path>>,
              read_from_path(fs[path], path, seek_fails))

\* read_from_file on a file the caller has opened at the path.
ReadFromFile(path, seek_fails) ==
    /\ Alive
    /\ Step
    /\ IsSome(fs[path])
    /\ Loaded("read_from_file", <<path>>,
              read_from_file(Unwrap(fs[path]), seek_fails))

Next ==
    \/ \E l \in LocalArgs, r \in RemoteArgs : Insert(l, r)
    \/ \E l \in {P_a, P_a_slash, P_b, P_bad} : RemoveLocal(l)
    \/ \E r \in {P_da, P_qb} : RemoveRemote(r)
    \/ \E m \in BOOLEAN : SetModified(m)
    \/ \E p \in FilePaths : SetLoadPath(p)
    \/ \E p \in FilePaths, f \in Faults : WriteToPath(p, f)
    \/ \E p \in FilePaths, f \in Faults : WriteToPathIfNew(p, f)
    \/ \E f \in Faults : WriteToLoadPath(f)
    \/ \E f \in Faults : WriteToLoadPathIfNew(f)
    \/ \E p \in FilePaths, sf \in BOOLEAN : ReadFromPath(p, sf)
    \/ \E p \in FilePaths, sf \in BOOLEAN : ReadFromFile(p, sf)

Spec == Init /\ [][Next]_vars

-----------------------------------------------------------------------------
(* The registry's invariants and the contract of insert and remove.        *)

IsInsert(st) == st.op = "insert" /\ st.status = "ok"

IsWrite(st) ==
    st.op \in {"write_to_path", "write_to_path_if_new", "write_to_load_path",
               "write_to_load_path_if_new"}

IsRead(st) == st.op \in {"read_from_path", "read_from_file"}

\* C1: in every reachable state the entry set is a bijection: no two stored
\* pairs share a local path and no two stored pairs share a remote path.
C1_Bijection ==
    \A e1 \in entries : \A e2 \in entries :
        (PathEq(e1[1], e2[1]) \/ PathEq(e1[2], e2[2])) => e1 = e2

\* An insert has just overwritten a pair on each side, and pairs remain.
C1_Witness ==
    /\ IsInsert(last)
    /\ last.out[1] = "Both"
    /\ entries # {}

\* C2: a successful insert(l, r) changes the entry set to exactly the old
\* entries minus every pair whose local is l or whose remote is r, plus the
\* pair (l, r); and when it replaced the pair (l, r1), afterwards
\* entry_remote(r1) = None and entry_remote(r) = Some({l, r}).
C2_InsertExact ==
    [][IsInsert(last') =>
        LET l == last'.arg[1]
            r == last'.arg[2]
        IN  /\ entries' =
                   {e \in entries : ~PathEq(e[1], l) /\ ~PathEq(e[2], r)}
                       \cup {<<l, r>>}
            /\ last'.out[1] = "Left" =>
                   /\ entry_remote(Self', last'.out[2][2]) = None
                   /\ entry_remote(Self', r) = Some(<<l, r>>)]_vars

\* insert(l, r2) has just replaced the pair (l, r1), r1 # r2.
C2_Witness ==
    /\ IsInsert(last)
    /\ last.out[1] = "Left"
    /\ ~PathEq(last.out[2][2], last.arg[2])

\* C3: whenever insert(l, r) is called with two paths that both have a file
\* name it succeeds, and immediately afterwards entry_local(l) and
\* entry_remote(r) both return the entry {l, r}.
C3_InsertLookup ==
    (/\ last.op = "insert"
     /\ IsSome(file_name(last.arg[1]))
     /\ IsSome(file_name(last.arg[2])))
        => /\ last.status = "ok"
           /\ entry_local(Self, last.arg[1]) = Some(<<last.arg[1], last.arg[2]>>)
           /\ entry_remote(Self, last.arg[2]) = Some(<<last.arg[1], last.arg[2]>>)

\* insert has just overwritten the pair that held its remote path.
C3_Witness ==
    /\ IsInsert(last)
    /\ last.out[1] = "Right"
    /\ entry_local(Self, last.arg[1]) = Some(<<last.arg[1], last.arg[2]>>)

\* C4, as claimed: a single insert evicts at most one stored pair, so the
\* number of entries after it is never smaller than before it.
C4_Original ==
    [][IsInsert(last') => Cardinality(entries') >= Cardinality(entries)]_vars

\* C4, amended: a single insert evicts at most two stored pairs (the one
\* that holds its local path and the one that holds its remote path), so
\* the number of entries after it is at least the number before it minus
\* one.
C4_InsertEvictsAtMostTwo ==
    [][IsInsert(last') =>
        /\ Cardinality(entries \ entries') <= 2
        /\ Cardinality(entries') >= Cardinality(entries) - 1]_vars

\* insert has just evicted two pairs, and a single pair is left.
C4_Witness ==
    /\ IsInsert(last)
    /\ last.out[1] = "Both"
    /\ last.out[2] # last.out[3]
    /\ Cardinality(entries) = 1

\* C5: in every reachable state, after a load in either format as well as
\* after insert and remove, every stored local path and every stored remote
\* path has a file name.
C5_AllHaveFileName ==
    \A e \in entries : IsSome(file_name(e[1])) /\ IsSome(file_name(e[2]))

\* C6, as claimed: modified() is true exactly when the entry set differs from
\* the entry set as of the last successful load or save, and it is false
\* immediately after any successful write.
Saved(st) ==
    /\ IsWrite(st)
    /\ st.status = "ok"
    /\ st.op \in {"write_to_load_path", "write_to_load_path_if_new"} => st.out[2]

C6_Original ==
    /\ load_status.modified <=> entries # baseline
    /\ Saved(last) => ~load_status.modified

\* C6, amended: modified() is true whenever the entry set differs from the
\* entry set as of the construction, the last successful load or the last
\* set_modified(false); no write changes it.
C6_ModifiedSinceClean ==
    [][/\ entries # clean => load_status.modified
       /\ entries' # clean' => load_status'.modified
       /\ IsWrite(last') => load_status'.modified = load_status.modified]_vars

\* A write has just succeeded; the flag is still set, although the entry
\* set is the saved one.
C6_Witness ==
    /\ Saved(last)
    /\ load_status.modified
    /\ entries = baseline
    /\ entries # clean

\* C7: remove_local(p) and remove_remote(p) with a key p that is not stored
\* return None and leave the entry set unchanged, and still set modified.
C7_RemoveAbsent ==
    [][/\ (/\ last'.op = "remove_local"
           /\ ~IsSome(get_by_left(entries, last'.arg[1])))
          => (last'.out = None /\ entries' = entries /\ load_status'.modified)
       /\ (/\ last'.op = "remove_remote"
           /\ ~IsSome(get_by_right(entries, last'.arg[1])))
          => (last'.out = None /\ entries' = entries /\ load_status'.modified)
      ]_vars

\* The first call on a new Stall, whose flag was clear, was a remove_local
\* that found nothing: the flag is set.
C7_Witness ==
    /\ last.op = "remove_local"
    /\ last.out = None
    /\ ops = 1
    /\ load_status.modified

\* The registry written to a file that opens and takes the whole text, and
\* the file read back.
RoundTrip(self) ==
    LET w == write_to_file(self, "none")
        r == read_from_file(w.content, FALSE)
    IN  /\ w.status = "ok"
        /\ r.status = "ok"
        /\ r.branch = "ron"
        /\ r.stall.entries = self.entries

\* C8, as claimed: for every registry, writing it and reading the written
\* bytes back succeeds, takes the structured branch and yields the same
\* entry set.
C8_Original == RoundTrip(Self)

\* C8, amended: the same for every registry whose paths are all valid
\* UTF-8; and a file that a write has just succeeded on reads back, by the
\* structured branch, as the registry's entry set.
C8_RoundTrip ==
    /\ CanSerialize(entries) => RoundTrip(Self)
    /\ (last.op \in {"write_to_path", "write_to_path_if_new"}
            /\ last.status = "ok")
        => LET r == read_from_file(Unwrap(fs[last.arg[1]]), FALSE)
           IN  /\ r.status = "ok"
               /\ r.branch = "ron"
               /\ r.stall.entries = entries

\* Two entries, one with a quote in its path, have been written and have
\* just been read back from the file by the structured branch.
C8_Witness ==
    /\ last.op = "read_from_path"
    /\ last.status = "ok"
    /\ last.out[1] = "ron"
    /\ Cardinality(entries) = 2
    /\ \E e \in entries : e[2] = P_qb
    /\ fs[last.arg[1]] = Some(generate_ron(entries))

-----------------------------------------------------------------------------
(* Loading: the files read_from_file is given.                             *)

\* The number of lines of a list file.
MaxLines == 3

L_da == <<"d", "/", "a">>

L_a == <<"a">>

L_b == <<" ", "b", "\r">>

L_hash == <<"#", " ", "c">>

L_slashes == <<"/", "/", " ", "c">>

L_blank == <<>>

L_root == <<"/">>

L_da_slash == <<"d", "/", "a", "/">>

L_bad == <<BadByte>>

\* The lines of a list file: paths (one with blanks around it, two that
\* are the same path), comments, a blank line, a path without a file name,
\* a line that is not valid UTF-8.
LineSet ==
    {L_da, L_a, L_b, L_hash, L_slashes, L_blank, L_root, L_da_slash, L_bad}

\* Each line with its line end.
JoinLines(ls) == Concat([i \in 1..Len(ls) |-> ls[i] \o <<"\n">>])

ListContents ==
    UNION {{JoinLines(ls) : ls \in [1..n -> LineSet]} : n \in 0..MaxLines}

\* A record with a field the Stall does not have.
X_unknown == <<"(", "e", "n", "t", "r", "i", "e", "s", ":", "{", "}", ",", "x", ":", "{", "}", ")">>

\* A record that carries its name, with two pairs that share a remote path.
X_named == <<"S", "t", "a", "l", "l", "(", "e", "n", "t", "r", "i", "e", "s", ":", "{", "\"", "a", "\"", ":", "\"", "d", "/", "a", "\"", ",", "\"", "b", "\"", ":", "\"", "d", "/", "a", "\"", "}", ")">>

\* A record followed by a line that is not part of it.
X_trailing == <<"(", "e", "n", "t", "r", "i", "e", "s", ":", "{", "\"", "a", "\"", ":", "\"", "d", "/", "a", "\"", "}", ")", "\n", "b">>

RonContents ==
    {X_ron, X_unknown, X_named, X_trailing, generate_ron({}),
     generate_ron({<<P_a, P_da>>, <<P_b, P_qb>>})}

\* A list file may lack its last line end.
ReadContents ==
    ListContents
        \cup {SubSeq(c, 1, Len(c) - 1) : c \in ListContents \ {<<>>}}
        \cup RonContents \cup {X_list}

InitRead ==
    /\ entries = new("f").entries
    /\ load_status = new("f").load_status
    /\ \E c \in ReadContents :
           fs = [p \in FilePaths |-> IF p = "f" THEN Some(c) ELSE None]
    /\ baseline = {}
    /\ clean = {}
    /\ last = [op |-> "new", arg |-> <<"f">>, status |-> "ok", out |-> <<>>]
    /\ ops = 0

NextRead ==
    \/ \E p \in FilePaths, sf \in BOOLEAN : ReadFromPath(p, sf)
    \/ \E p \in FilePaths, sf \in BOOLEAN : ReadFromFile(p, sf)

SpecRead == InitRead /\ [][NextRead]_vars

\* The content of the file the last load read.
ReadContent == Unwrap(fs[last.arg[1]])

\* C9: read_from_file tries the structured parse first; the list parse runs
\* only after the structured parse has failed and the file has been rewound;
\* a successful structured parse is the result; an error is returned only
\* when the list parse or the rewind fails, and it is that error, never the
\* structured parse's.
C9_ParserChain ==
    (IsRead(last) /\ last.out[1] # "open") =>
        LET ron == parse_ron_from_file(ReadContent)
            lst == parse_list_from_file(ReadContent)
        IN  /\ ron.status = "ok" =>
                   /\ last.status = "ok"
                   /\ last.out[1] = "ron"
                   /\ entries = ron.stall.entries
            /\ ron.status # "ok" => last.out[1] \in {"seek", "list"}
            /\ last.out[1] = "list" =>
                   /\ last.status = lst.status
                   /\ lst.status = "ok" => entries = lst.stall.entries
            /\ last.status = "err" =>
                   /\ last.out[2] # ron.err
                   /\ last.out[2] = IF last.out[1] = "list" THEN lst.err
                                    ELSE "seek"

\* Both parses have failed, and the error returned is the list parse's.
C9_Witness ==
    /\ IsRead(last)
    /\ last.status = "err"
    /\ last.out[1] = "list"
    /\ parse_ron_from_file(ReadContent).status = "err"
    /\ last.out[2] = parse_list_from_file(ReadContent).err

IsEntryLine(line) ==
    /\ line # <<>>
    /\ ~StartsWith(line, <<"/", "/">>)
    /\ ~StartsWith(line, <<"#">>)

\* The lines of the content, trimmed, without the blank and comment lines.
Remaining(content) ==
    LET ls == Lines(content)
    IN  SelectSeq([i \in 1..Len(ls) |-> TrimEnd(TrimStart(ls[i]))], IsEntryLine)

\* C10, as claimed: every remaining line p of a list file is in the result
\* as the pair (file_name(p), p), and the result holds no other pair.
C10_Original ==
    (IsRead(last) /\ last.status = "ok" /\ last.out[1] = "list") =>
        LET ps == Remaining(ReadContent)
        IN  entries =
                {<<Unwrap(file_name(ps[i])), ps[i]>> : i \in 1..Len(ps)}

\* C10, amended: whenever the list parse returns a registry, it holds the
\* pair (file_name(p), p) for exactly the remaining lines p that no later
\* remaining line shares the file name of (a later line with the same file
\* name takes the earlier one's place), and no other pair.
C10_ListParse ==
    (IsRead(last) /\ last.status = "ok" /\ last.out[1] = "list") =>
        LET ps == Remaining(ReadContent)
            kept == {i \in 1..Len(ps) :
                        \A j \in (i + 1)..Len(ps) :
                            file_name(ps[j]) # file_name(ps[i])}
        IN  entries = {<<Unwrap(file_name(ps[i])), ps[i]>> : i \in kept}

\* A list with a skipped line and two lines of the same file name has been
\* parsed: the later of the two is stored, the earlier is not.
C10_Witness ==
    /\ IsRead(last)
    /\ last.status = "ok"
    /\ last.out[1] = "list"
    /\ \E ps \in {Remaining(ReadContent)} :
           /\ Len(ps) < Len(Lines(ReadContent))
           /\ \E i \in 1..Len(ps) : \E j \in (i + 1)..Len(ps) :
                  /\ file_name(ps[i]) = file_name(ps[j])
                  /\ ~PathEq(ps[i], ps[j])
                  /\ entry_remote(Self, ps[i]) = None
                  /\ IsSome(entry_remote(Self, ps[j]))

-----------------------------------------------------------------------------
(* Errors of loading and saving.                                           *)

\* C11: when the list parse meets a line that is neither blank nor a
\* comment and whose path has no file name, the load does not panic.
C11_NoPanic == (IsRead(last) /\ last.out[1] = "list") => last.status # "panic"

\* C12: write_to_path_if_new(p) with a file at p returns the error of the
\* existing file and leaves the file, and the registry, as they were.
C12_IfNewKeepsExisting ==
    [][(last'.op = "write_to_path_if_new" /\ IsSome(fs[last'.arg[1]])) =>
          /\ last'.status = "err"
          /\ last'.out = <<"Failed to create stall file: exists">>
          /\ fs' = fs
          /\ entries' = entries
          /\ load_status' = load_status]_vars

\* write_to_path_if_new has just been refused over a file that holds
\* something else than the registry's serialization.
C12_Witness ==
    /\ last.op = "write_to_path_if_new"
    /\ last.out = <<"Failed to create stall file: exists">>
    /\ entries # {}
    /\ IsSome(fs[last.arg[1]])
    /\ fs[last.arg[1]] # Some(generate_ron(entries))

\* C13: after a write_to_path or write_to_path_if_new call that returns an
\* error, the file at the path holds what it held before the call (or is
\* still absent), or a complete serialization of the registry.
C13_NoPartialFile ==
    [][(/\ last'.op \in {"write_to_path", "write_to_path_if_new"}
        /\ last'.status = "err") =>
          \/ fs'[last'.arg[1]] = fs[last'.arg[1]]
          \/ fs'[last'.arg[1]] = Some(generate_ron(entries))]_vars

\* C14: write_to_load_path and write_to_load_path_if_new on a detached
\* Stall return Ok(false) and change no file; on an attached Stall they do
\* what write_to_path and write_to_path_if_new do at the load path, and
\* return Ok(true) when that write succeeds and its error otherwise.
C14_LoadPathWrites ==
    [][/\ last'.op = "write_to_load_path" =>
            IF ~IsSome(load_status.load_path)
            THEN last'.status = "ok" /\ last'.out = <<"", FALSE>> /\ fs' = fs
            ELSE \E f \in Faults :
                   LET p == Unwrap(load_status.load_path)
                       w == write_to_path(Self, fs[p], f)
                   IN  /\ last'.status = w.status
                       /\ last'.out = <<w.err, w.status = "ok">>
                       /\ fs' = [fs EXCEPT ![p] = w.file]
       /\ last'.op = "write_to_load_path_if_new" =>
            IF ~IsSome(load_status.load_path)
            THEN last'.status = "ok" /\ last'.out = <<"", FALSE>> /\ fs' = fs
            ELSE \E f \in Faults :
                   LET p == Unwrap(load_status.load_path)
                       w == write_to_path_if_new(Self, fs[p], f)
                   IN  /\ last'.status = w.status
                       /\ last'.out = <<w.err, w.status = "ok">>
                       /\ fs' = [fs EXCEPT ![p] = w.file]
      ]_vars

\* write_to_load_path has just been called on a detached Stall that holds
\* entries: nothing was written.
C14_Witness ==
    /\ last.op = "write_to_load_path"
    /\ last.status = "ok"
    /\ last.out = <<"", FALSE>>
    /\ ~IsSome(load_status.load_path)
    /\ entries # {}

-----------------------------------------------------------------------------
(* The load status across the operations.                                  *)

\* C15: no write, successful or failed, changes the registry: the entry
\* set, modified and the load path are the same after the call as before.
C15_WritesKeepRegistry ==
    [][IsWrite(last') =>
          (entries' = entries /\ load_status' = load_status)]_vars

\* A modified Stall has just been saved to a path that is not its load
\* path: it is still modified, and its load path is still the other one.
C15_Witness ==
    /\ last.op = "write_to_path_if_new"
    /\ last.status = "ok"
    /\ load_status.modified
    /\ entries # {}
    /\ IsSome(load_status.load_path)
    /\ load_status.load_path # Some(last.arg[1])

\* C16, as claimed: after a successful write_to_path(p) or
\* write_to_path_if_new(p) the registry has a load path.
C16_Original ==
    [][(/\ last'.op \in {"write_to_path", "write_to_path_if_new"}
        /\ last'.status = "ok") => IsSome(load_status'.load_path)]_vars

\* C16, amended: the load path is Some(p) after new(p), after
\* set_load_path(p) and in the result of a successful read_from_path(p);
\* the result of read_from_file has none; no other call changes it (a
\* write leaves a detached Stall detached), so no call on a Stall that has
\* a load path leaves it without one.
C16_LoadPath ==
    [][/\ last.op = "new" => load_status.load_path = Some(last.arg[1])
       /\ last'.op = "set_load_path"
             => load_status'.load_path = Some(last'.arg[1])
       /\ (last'.op = "read_from_path" /\ last'.status = "ok")
             => load_status'.load_path = Some(last'.arg[1])
       /\ (last'.op = "read_from_file" /\ last'.status = "ok")
             => load_status'.load_path = None
       /\ ~(\/ last'.op = "set_load_path"
            \/ IsRead(last') /\ last'.status = "ok")
             => load_status'.load_path = load_status.load_path]_vars

\* A detached Stall has just been saved to a path: it is still detached.
C16_Witness ==
    /\ last.op = "write_to_path"
    /\ last.status = "ok"
    /\ ~IsSome(load_status.load_path)

\* C17: a successful read_from_path(p), in either format, gives a registry
\* with the load path p, not modified, whose entries are those
\* read_from_file gives for the content of the file; when the file cannot
\* be opened or its content cannot be parsed, the result is an error.
C17_ReadFromPath ==
    last.op = "read_from_path" =>
        LET file == fs[last.arg[1]]
        IN  /\ last.status = "ok" =>
                  /\ load_status =
                         [load_path |-> Some(last.arg[1]), modified |-> FALSE]
                  /\ IsSome(file)
                  /\ \E sf \in BOOLEAN :
                         LET r == read_from_file(Unwrap(file), sf)
                         IN  /\ r.status = "ok"
                             /\ r.branch = last.out[1]
                             /\ entries = r.stall.entries
            /\ ~IsSome(file) =>
                  (last.status = "err" /\ last.out[1] = "open")
            /\ (/\ IsSome(file)
                /\ read_from_file(Unwrap(file), FALSE).status = "err")
                  => last.status = "err"

\* read_from_path has just loaded a list file that holds entries.
C17_Witness ==
    /\ last.op = "read_from_path"
    /\ last.status = "ok"
    /\ last.out[1] = "list"
    /\ entries # {}
    /\ load_status.load_path = Some(last.arg[1])

\* C18: insert(local, remote) with a path that has no file name panics,
\* and it does so before any change: the entry set, modified and the load
\* path are the same as before the call.
C18_InsertPanics ==
    [][(/\ last'.op = "insert"
        /\ \/ ~IsSome(file_name(last'.arg[1]))
           \/ ~IsSome(file_name(last'.arg[2]))) =>
          /\ last'.status = "panic"
          /\ entries' = entries
          /\ load_status' = load_status]_vars

\* An insert on a Stall that holds entries and is not modified has just
\* panicked.
C18_Witness ==
    /\ last.op = "insert"
    /\ last.status = "panic"
    /\ entries # {}
    /\ ~load_status.modified

\* C19: the registry a list parse gives is not modified and has no load
\* path, however many entries the lines made.
C19_ListDetached ==
    (/\ last.op = "read_from_file"
     /\ last.status = "ok"
     /\ last.out[1] = "list") =>
        (~load_status.modified /\ load_status.load_path = None)

\* read_from_file has just given a registry of two entries from a list.
C19_Witness ==
    /\ last.op = "read_from_file"
    /\ last.status = "ok"
    /\ last.out[1] = "list"
    /\ Cardinality(entries) = 2

\* C20: remove_local(l), with l stored with the remote r, returns the pair
\* (l, r) and removes it: afterwards neither l nor r is found, every other
\* pair is as it was, and modified is true; remove_remote(r) does the same.
C20_RemovePresent ==
    [][/\ (/\ last'.op = "remove_local"
           /\ IsSome(entry_local(Self, last'.arg[1]))) =>
             LET l == last'.arg[1]
                 e == CHOOSE e \in entries : PathEq(e[1], l)
             IN  /\ last'.out = Some(e)
                 /\ entries' = entries \ {e}
                 /\ entry_local([Self EXCEPT !.entries = entries'], l) = None
                 /\ entry_remote([Self EXCEPT !.entries = entries'], e[2]) = None
                 /\ load_status'.modified
       /\ (/\ last'.op = "remove_remote"
           /\ IsSome(entry_remote(Self, last'.arg[1]))) =>
             LET r == last'.arg[1]
                 e == CHOOSE e \in entries : PathEq(e[2], r)
             IN  /\ last'.out = Some(e)
                 /\ entries' = entries \ {e}
                 /\ entry_local([Self EXCEPT !.entries = entries'], e[1]) = None
                 /\ entry_remote([Self EXCEPT !.entries = entries'], r) = None
                 /\ load_status'.modified
      ]_vars

\* remove_local, asked for "a/", has just removed the pair stored under
\* "a" from a Stall that was not modified; another pair is left.
C20_Witness ==
    /\ last.op = "remove_local"
    /\ last.arg = <<P_a_slash>>
    /\ IsSome(last.out)
    /\ Unwrap(last.out)[1] = P_a
    /\ entries # {}
    /\ load_status.modified

-----------------------------------------------------------------------------
(* Overwriting and the fallback to the list format.                        *)

\* C21: a successful write_to_path(p) leaves at p exactly the structured
\* serialization of the registry's entries, whether or not p held a file
\* and whatever it held, and changes no other file.
C21_WriteReplaces ==
    [][(last'.op = "write_to_path" /\ last'.status = "ok") =>
          fs' = [fs EXCEPT ![last'.arg[1]] = Some(generate_ron(entries))]]_vars

\* write_to_path has just written a registry that holds entries; the other
\* file still holds another text.
C21_Witness ==
    /\ last.op = "write_to_path"
    /\ last.status = "ok"
    /\ entries # {}
    /\ fs[last.arg[1]] = Some(generate_ron(entries))
    /\ \E p \in FilePaths :
           /\ p # last.arg[1]
           /\ IsSome(fs[p])
           /\ fs[p] # fs[last.arg[1]]

\* C22, as claimed: when the structured parse rejects the content and the
\* list parse accepts it, read_from_file succeeds with the registry of the
\* list parse; empty content gives the empty registry.
C22_Original ==
    (/\ last.op = "read_from_file"
     /\ parse_ron_from_file(ReadContent).status = "err"
     /\ parse_list_from_file(ReadContent).status = "ok") =>
        /\ last.status = "ok"
        /\ entries = parse_list_from_file(ReadContent).stall.entries
        /\ ReadContent = <<>> => entries = {}

\* C22, amended: in that case read_from_file either succeeds by the list
\* parse, with its registry, or returns the error of the rewind, and no
\* other error; empty content, when read, gives the empty registry.
C22_Fallback ==
    (/\ last.op = "read_from_file"
     /\ parse_ron_from_file(ReadContent).status = "err"
     /\ parse_list_from_file(ReadContent).status = "ok") =>
        \/ /\ last.status = "ok"
           /\ last.out[1] = "list"
           /\ entries = parse_list_from_file(ReadContent).stall.entries
           /\ ReadContent = <<>> => entries = {}
        \/ /\ last.status = "err"
           /\ last.out = <<"seek", "seek">>

\* read_from_file has just read a record with an unknown field as a list
\* of one line.
C22_Witness ==
    /\ last.op = "read_from_file"
    /\ last.status = "ok"
    /\ last.out[1] = "list"
    /\ ReadContent = X_unknown
    /\ entries = {<<X_unknown, X_unknown>>}

=============================================================================
